---- MODULE Spec2Model ----
(***************************************************************************)
(* A model of @alessiofrittoli/stream-reader.                               *)
(*                                                                         *)
(*  - Spec        : the StreamReader class (read, readChunks, cancel,      *)
(*                  close, error, removeListeners) driven against a WHATWG  *)
(*                  ReadableStream fed by a producer.                      *)
(*  - ExtractSpec : extractBytesFromReadable, the byte splitter built on a  *)
(*                  Node.js Transform.                                     *)
(*                                                                         *)
(* Chunks and bytes are opaque to the code, so the i-th chunk (byte) the   *)
(* source delivers is the number i: any loss, duplication or reordering is *)
(* visible.                                                                *)
(***************************************************************************)
EXTENDS Integers, Sequences, FiniteSets, TLC

\* ------------------------------------------------------------------ bounds
\* Chunks the producer may write in one run.
MaxChunks == 3
\* read() calls on one instance (one after the other).
MaxReads == 2
\* cancel() / abort() / close() calls made from outside the read loop.
MaxCalls == 2
\* Bytes the Readable may deliver to one extraction, and the longest chunk.
MaxBytes == 12
MaxChunkLen == 5
\* The largest `bytes` argument of extractBytesFromReadable.
MaxTarget == 13
\* generatorToReadableStream: values the generator yields, reads of the consumer
MaxValues == 3
MaxConsumerReads == 5

\* ------------------------------------------------------------- vocabulary
EventNames == { "data", "read", "close", "cancel", "abort", "error" }
ListenerCounts == { 0, 1 }
\* The listeners registered before the run. No code branches on the number of
\* close, cancel or abort listeners, so these three are registered together;
\* 'read' is the former name of the 'data' event.
ListenerSetups ==
    { l \in [ EventNames -> ListenerCounts ] :
        /\ l["close"] = l["cancel"]
        /\ l["cancel"] = l["abort"]
        /\ l["read"] = l["data"] }
NoReason == "(none)"
Reasons == { NoReason, "User cancelled" }
CancelKinds == { "cancel", "abort" }

InvalidState == "Invalid state: The reader is not attached to a stream"
ProducerError == "Test Error"
TransformError == "Transform Error"
SourceCancelError == "Source cancel failed"

VARIABLES
    \* ---- StreamReader fields
    closed,          \* this.closed
    receivedChunks,  \* this.receivedChunks
    listeners,       \* listenerCount per event of the EventEmitter base
    hasTransform,    \* options.transform given
    inMemory,        \* options.inMemory: chunks are retained
    legacy,          \* the reader is the earlier StreamReader<T> of src/index.ts
    \* ---- the ReadableStream and its default reader (this.reader)
    locked,          \* the reader still holds the stream
    stream,          \* "readable" | "closing" | "closed" | "errored"
    queue,           \* chunks enqueued and not yet pulled
    storedError,     \* the stream's stored error, once errored
    cancelReason,    \* what the source's cancel() was called with, or NoCancel
    \* ---- the producer (the writer side)
    producer,        \* "active" | "ended" | "failed" | "rejected"
    producerError,   \* what the producer's pending write rejected with
    written,         \* chunks written so far: 1 .. written
    \* ---- the running read() call
    pc,              \* "idle" | "pull" | "transform"
    pull,            \* the outstanding reader.read(): [kind, chunk, err]
    current,         \* the chunk handed to the awaited transform
    reads,           \* read() calls made
    results,         \* how each read() call settled
    pulled,          \* chunks the pulls delivered, in order
    \* ---- the running cancel() / abort() call
    cancelPc,        \* "none" | "awaitSource" | "awaitTick" | "done" | "failed"
    cancelError,     \* what cancel() rejected with
    calls,           \* outside calls of cancel/abort/close made
    \* ---- observation
    events,          \* every emit(): [name, arg, heard]; heard: a listener ran
    terminal,        \* which transition closed the reader first, or "none"
    listenerCancel,  \* the effective cancel made by a data listener, if any
    cancelDuring,    \* where read() and its pull stood at the effective cancel
    skipped          \* cancel() / abort() calls of listeners that found it closed

VARIABLES
    \* ---- extractBytesFromReadable( input, bytes )
    bytes,           \* the `bytes` argument
    ExtractedData,   \* let ExtractedData
    bytesRead,       \* let bytesRead
    resolved,        \* let resolved
    promise,         \* the returned Promise: "pending" | "resolved" | "rejected"
    promiseValue,    \* the Buffer it resolved with
    promiseError,    \* the Error it rejected with
    pushes,          \* every this.push( ... ) of the Transform, in order
    chunks,          \* the chunks `input` delivered, in order
    input,           \* the Readable: "flowing" | "ended" | "errored"
    transform,       \* the Transform: "open" | "ended" | "errored" | "destroyed"
    transformError   \* the Error the Transform failed or was destroyed with

VARIABLES
    \* ---- generatorToReadableStream( generator ) and a consumer of its stream
    generatorValues, \* the values the generator yields, in order
    generatorThrows, \* the generator throws after them instead of returning
    nexts,           \* generator.next() calls made
    pulls,           \* calls of the source's pull( controller )
    pulling,         \* "no" | "awaitNext" | "returning": the pull() in progress
    pullAgain,       \* the controller's [[pullAgain]] flag
    started,         \* the controller's [[started]] flag
    closeRequested,  \* the controller's [[closeRequested]] flag
    readable,        \* the produced stream: "readable" | "closed" | "errored"
    chunkQueue,      \* the controller's queue
    readRequests,    \* pending reader.read() calls of the consumer
    consumed         \* how the consumer's read() calls settled, in order

VARIABLES
    \* ---- readChunks() iterated directly by a consumer
    iterator,        \* the generator: "suspended" | "awaiting" | "ended" | "failed"
    nextCalls,       \* next() calls made on it (advances of a for await loop)
    yielded,         \* the values it yielded, in order
    iteratorError    \* what its next() rejected with

iterateVars == << iterator, nextCalls, yielded, iteratorError >>

generatorVars == << generatorValues, generatorThrows, nexts, pulls, pulling,
                    pullAgain, started, closeRequested, readable, chunkQueue,
                    readRequests, consumed >>

extractVars == << bytes, ExtractedData, bytesRead, resolved, promise, promiseValue,
                  promiseError, pushes, chunks, input, transform, transformError >>

readerVars == << closed, receivedChunks, listeners, hasTransform, locked, stream,
                 queue, storedError, cancelReason, producer, producerError,
                 written, pc, pull, current, reads, results, pulled, cancelPc,
                 cancelError, calls, events, terminal, listenerCancel, inMemory, legacy,
                 cancelDuring, skipped >>

NoCancel == [ name |-> "", message |-> "" ]
NoListenerCancel == [ at |-> -1, reason |-> NoReason, kind |-> "", src |-> "" ]
NotCancelled == [ pc |-> "none", read |-> 0, pull |-> "none" ]

NoPull == [ kind |-> "none", chunk |-> 0, err |-> "" ]
Waiting == [ kind |-> "waiting", chunk |-> 0, err |-> "" ]
Done == [ kind |-> "done", chunk |-> 0, err |-> "" ]
Chunk(c) == [ kind |-> "chunk", chunk |-> c, err |-> "" ]
Failed(e) == [ kind |-> "error", chunk |-> 0, err |-> e ]

Resolved(value) == [ kind |-> "resolved", value |-> value, err |-> "" ]
Rejected(e) == [ kind |-> "rejected", value |-> << >>, err |-> e ]
\* read() resolved with undefined
ResolvedVoid == [ kind |-> "void", value |-> << >>, err |-> "" ]

\* ------------------------------------------------------- the reader's state
\* The fields the methods below read and write, as one record.
Cur ==
    [ closed |-> closed, receivedChunks |-> receivedChunks, listeners |-> listeners,
      locked |-> locked, stream |-> stream, queue |-> queue,
      storedError |-> storedError, cancelReason |-> cancelReason, pull |-> pull,
      cancelPc |-> cancelPc, cancelError |-> cancelError, events |-> events,
      terminal |-> terminal ]

Commit(S) ==
    /\ closed' = S.closed
    /\ receivedChunks' = S.receivedChunks
    /\ listeners' = S.listeners
    /\ locked' = S.locked
    /\ stream' = S.stream
    /\ queue' = S.queue
    /\ storedError' = S.storedError
    /\ cancelReason' = S.cancelReason
    /\ pull' = S.pull
    /\ cancelPc' = S.cancelPc
    /\ cancelError' = S.cancelError
    /\ events' = S.events
    /\ terminal' = S.terminal

\* options.transform: the tests use String; here a chunk c becomes c + 100.
Transform(c) == c + 100

\* EventEmitter.emit( name, arg ): every listener of `name` is called with arg.
Emit(S, name, arg) ==
    [ S EXCEPT !.events = Append(@, [ name |-> name, arg |-> arg,
                                      heard |-> S.listeners[name] > 0 ]) ]

\* this.receivedChunks.push( processed )
AccumulateInFront(S, out) == [ S EXCEPT !.receivedChunks = << out >> \o @ ]
Accumulate(S, out) == [ S EXCEPT !.receivedChunks = Append(@, out) ]

\* With options.inMemory set to false no chunk is retained and read() resolves
\* with undefined.
RetainAlways(S, out) == Accumulate(S, out)
Retain(S, out) == IF inMemory THEN Accumulate(S, out) ELSE S
ReadValue(S) == IF inMemory THEN Resolved(S.receivedChunks) ELSE ResolvedVoid

\* The event a chunk is emitted as: 'data', earlier 'read'.
DataEvent == IF legacy THEN "read" ELSE "data"

\* The methods for an early termination: the earlier reader has cancel() only.
CancelMethods == IF legacy THEN { "cancel" } ELSE CancelKinds

\* StreamReader.removeListeners
Removed ==
    IF legacy THEN { "read", "close", "abort" } ELSE { "data", "close", "cancel" }

RemoveListeners(S) ==
    [ S EXCEPT !.listeners = [ e \in EventNames |->
        IF e \in Removed THEN 0 ELSE @[e] ] ]

\* ReadableStreamDefaultReader.releaseLock()
ReleaseLock(S) == [ S EXCEPT !.locked = FALSE ]

\* ReadableStreamDefaultReader.read(), as readChunks() calls it.
ReaderRead(S) ==
    IF ~S.locked THEN [ S EXCEPT !.pull = Failed(InvalidState) ]
    ELSE IF S.stream = "errored" THEN [ S EXCEPT !.pull = Failed(S.storedError) ]
    ELSE IF S.queue # << >> THEN
        [ S EXCEPT !.pull = Chunk(Head(S.queue)),
                   !.queue = Tail(@),
                   !.stream = IF @ = "closing" /\ Tail(S.queue) = << >>
                              THEN "closed" ELSE @ ]
    ELSE IF S.stream = "closed" THEN [ S EXCEPT !.pull = Done ]
    ELSE [ S EXCEPT !.pull = Waiting ]

\* ReadableStreamDefaultReader.cancel( exception ), up to the await.
ReaderCancelLeavesPull(S, exception) ==
    IF ~S.locked THEN
        [ S EXCEPT !.cancelPc = "failed", !.cancelError = InvalidState ]
    ELSE IF S.stream = "errored" THEN
        [ S EXCEPT !.cancelPc = "failed", !.cancelError = S.storedError ]
    ELSE IF S.stream = "closed" THEN
        [ S EXCEPT !.cancelPc = "awaitTick" ]
    ELSE
        [ S EXCEPT !.stream = "closed",
                   !.queue = << >>,
                   !.cancelReason = exception,
                   !.cancelPc = "awaitSource" ]
ReaderCancel(S, exception) ==
    IF ~S.locked THEN
        [ S EXCEPT !.cancelPc = "failed", !.cancelError = InvalidState ]
    ELSE IF S.stream = "errored" THEN
        [ S EXCEPT !.cancelPc = "failed", !.cancelError = S.storedError ]
    ELSE IF S.stream = "closed" THEN
        [ S EXCEPT !.cancelPc = "awaitTick" ]
    ELSE
        [ S EXCEPT !.stream = "closed",
                   !.queue = << >>,
                   !.pull = IF @ = Waiting THEN Done ELSE @,
                   !.cancelReason = exception,
                   !.cancelPc = "awaitSource" ]

\* new DOMException( reason || 'Streming reader cancelled.', 'AbortError' )
DefaultMessage(kind) ==
    IF kind = "cancel" /\ ~legacy
    THEN "Streming reader cancelled."
    ELSE "Streming reader aborted."

Exception(kind, reason) ==
    [ name |-> "AbortError",
      message |-> IF reason = NoReason THEN DefaultMessage(kind) ELSE reason ]

\* StreamReader.cancel( reason ), up to `await this.reader.cancel( exception )`.
\* abort( reason ) is the same transition emitting 'abort'.
CancelStartLeavesSource(S, kind, reason) ==
    IF S.closed THEN S
    ELSE [ Emit([ S EXCEPT !.closed = TRUE, !.terminal = kind ],
                kind, Exception(kind, reason)) EXCEPT !.cancelPc = "awaitTick" ]
CancelStartUnguarded(S, kind, reason) ==
    ReaderCancel(
        Emit([ S EXCEPT !.closed = TRUE, !.terminal = kind ],
             kind, Exception(kind, reason)),
        Exception(kind, reason))
CancelStart(S, kind, reason) ==
    IF S.closed THEN S
    ELSE ReaderCancel(
            Emit([ S EXCEPT !.closed = TRUE, !.terminal = kind ],
                 kind, Exception(kind, reason)),
            Exception(kind, reason))

\* StreamReader.cancel after the await: releaseLock(), removeListeners().
CancelFinish(S) ==
    [ RemoveListeners(ReleaseLock(S)) EXCEPT !.cancelPc = "done" ]

\* StreamReader.close
DoCloseUnguarded(S) ==
    RemoveListeners(
        Emit(ReleaseLock([ S EXCEPT !.closed = TRUE,
                                    !.terminal = IF S.closed THEN @ ELSE "close" ]),
             "close", S.receivedChunks))
DoCloseRemovesFirst(S) ==
    IF S.closed THEN S
    ELSE Emit(RemoveListeners(ReleaseLock([ S EXCEPT !.closed = TRUE,
                                                     !.terminal = "close" ])),
              "close", S.receivedChunks)
DoClose(S) ==
    IF S.closed THEN S
    ELSE RemoveListeners(
            Emit(ReleaseLock([ S EXCEPT !.closed = TRUE, !.terminal = "close" ]),
                 "close", S.receivedChunks))

\* StreamReader.close with a 'close' listener that calls cancel() or abort().
DoCloseHeard(S, kind, reason) ==
    IF S.closed THEN S
    ELSE RemoveListeners(
            CancelStart(
                Emit(ReleaseLock([ S EXCEPT !.closed = TRUE, !.terminal = "close" ]),
                     "close", S.receivedChunks),
                kind, reason))

\* StreamReader.error: whether it re-throws, and the state it leaves.
ErrorThrowsNever(S) == FALSE
ErrorThrowsAlways(S) == TRUE
ErrorThrows(S) == S.listeners["error"] = 0

DoErrorKeepsListeners(S, e) ==
    LET S1 == [ S EXCEPT !.closed = TRUE,
                         !.terminal = IF S.closed THEN @ ELSE "error" ]
    IN  IF ErrorThrows(S1) THEN S1 ELSE Emit(S1, "error", e)
DoErrorLeavesOpen(S, e) ==
    LET S1 == RemoveListeners([ S EXCEPT !.terminal = IF S.closed THEN @ ELSE "error" ])
    IN  IF ErrorThrows(S1) THEN S1 ELSE Emit(S1, "error", e)
DoError(S, e) ==
    LET S1 == RemoveListeners([ S EXCEPT !.closed = TRUE,
                                         !.terminal = IF S.closed THEN @ ELSE "error" ])
    IN  IF ErrorThrows(S1) THEN S1 ELSE Emit(S1, "error", e)

\* How read() settles when its catch block runs error( e ).
ErrorResult(S, e) ==
    IF ErrorThrows(RemoveListeners(S)) THEN Rejected(e) ELSE ReadValue(S)

\* --------------------------------------------------------------- the reader
Init ==
    \* readChunks() is not iterated from outside read() yet
    /\ iterator = "suspended"
    /\ nextCalls = 0
    /\ yielded = << >>
    /\ iteratorError = ""
    /\ closed = FALSE
    /\ receivedChunks = << >>
    /\ listeners \in ListenerSetups
    /\ hasTransform \in BOOLEAN
    /\ locked = TRUE
    /\ stream = "readable"
    /\ queue = << >>
    /\ storedError = ""
    /\ cancelReason = NoCancel
    /\ producer = "active"
    /\ producerError = NoCancel
    /\ written = 0
    /\ pc = "idle"
    /\ pull = NoPull
    /\ current = 0
    /\ reads = 0
    /\ results = << >>
    /\ pulled = << >>
    /\ cancelPc = "none"
    /\ cancelError = ""
    /\ calls = 0
    /\ events = << >>
    /\ terminal = "none"
    /\ listenerCancel = NoListenerCancel
    /\ inMemory = TRUE
    /\ legacy = FALSE
    /\ cancelDuring = NotCancelled
    /\ skipped = 0
    \* no extraction runs beside the reader
    /\ bytes = 0
    /\ ExtractedData = << >>
    /\ bytesRead = 0
    /\ resolved = FALSE
    /\ promise = "pending"
    /\ promiseValue = << >>
    /\ promiseError = ""
    /\ pushes = << >>
    /\ chunks = << >>
    /\ input = "flowing"
    /\ transform = "open"
    /\ transformError = ""
    \* no generator is wrapped
    /\ generatorValues = << >>
    /\ generatorThrows = FALSE
    /\ nexts = 0
    /\ pulls = 0
    /\ pulling = "no"
    /\ pullAgain = FALSE
    /\ started = FALSE
    /\ closeRequested = FALSE
    /\ readable = "readable"
    /\ chunkQueue = << >>
    /\ readRequests = 0
    /\ consumed = << >>

\* The earlier StreamReader<T>: no options, hence no transform.
LegacyInit ==
    \* readChunks() is not iterated from outside read() yet
    /\ iterator = "suspended"
    /\ nextCalls = 0
    /\ yielded = << >>
    /\ iteratorError = ""
    /\ closed = FALSE
    /\ receivedChunks = << >>
    /\ listeners \in ListenerSetups
    /\ hasTransform = FALSE
    /\ locked = TRUE
    /\ stream = "readable"
    /\ queue = << >>
    /\ storedError = ""
    /\ cancelReason = NoCancel
    /\ producer = "active"
    /\ producerError = NoCancel
    /\ written = 0
    /\ pc = "idle"
    /\ pull = NoPull
    /\ current = 0
    /\ reads = 0
    /\ results = << >>
    /\ pulled = << >>
    /\ cancelPc = "none"
    /\ cancelError = ""
    /\ calls = 0
    /\ events = << >>
    /\ terminal = "none"
    /\ listenerCancel = NoListenerCancel
    /\ inMemory = TRUE
    /\ legacy = TRUE
    /\ cancelDuring = NotCancelled
    /\ skipped = 0
    \* no extraction runs beside the reader
    /\ bytes = 0
    /\ ExtractedData = << >>
    /\ bytesRead = 0
    /\ resolved = FALSE
    /\ promise = "pending"
    /\ promiseValue = << >>
    /\ promiseError = ""
    /\ pushes = << >>
    /\ chunks = << >>
    /\ input = "flowing"
    /\ transform = "open"
    /\ transformError = ""
    \* no generator is wrapped
    /\ generatorValues = << >>
    /\ generatorThrows = FALSE
    /\ nexts = 0
    /\ pulls = 0
    /\ pulling = "no"
    /\ pullAgain = FALSE
    /\ started = FALSE
    /\ closeRequested = FALSE
    /\ readable = "readable"
    /\ chunkQueue = << >>
    /\ readRequests = 0
    /\ consumed = << >>

\* A reader constructed with { inMemory: false }.
NoMemoryInit ==
    \* readChunks() is not iterated from outside read() yet
    /\ iterator = "suspended"
    /\ nextCalls = 0
    /\ yielded = << >>
    /\ iteratorError = ""
    /\ closed = FALSE
    /\ receivedChunks = << >>
    /\ listeners \in ListenerSetups
    /\ hasTransform \in BOOLEAN
    /\ locked = TRUE
    /\ stream = "readable"
    /\ queue = << >>
    /\ storedError = ""
    /\ cancelReason = NoCancel
    /\ producer = "active"
    /\ producerError = NoCancel
    /\ written = 0
    /\ pc = "idle"
    /\ pull = NoPull
    /\ current = 0
    /\ reads = 0
    /\ results = << >>
    /\ pulled = << >>
    /\ cancelPc = "none"
    /\ cancelError = ""
    /\ calls = 0
    /\ events = << >>
    /\ terminal = "none"
    /\ listenerCancel = NoListenerCancel
    /\ inMemory = FALSE
    /\ legacy = FALSE
    /\ cancelDuring = NotCancelled
    /\ skipped = 0
    \* no extraction runs beside the reader
    /\ bytes = 0
    /\ ExtractedData = << >>
    /\ bytesRead = 0
    /\ resolved = FALSE
    /\ promise = "pending"
    /\ promiseValue = << >>
    /\ promiseError = ""
    /\ pushes = << >>
    /\ chunks = << >>
    /\ input = "flowing"
    /\ transform = "open"
    /\ transformError = ""
    \* no generator is wrapped
    /\ generatorValues = << >>
    /\ generatorThrows = FALSE
    /\ nexts = 0
    /\ pulls = 0
    /\ pulling = "no"
    /\ pullAgain = FALSE
    /\ started = FALSE
    /\ closeRequested = FALSE
    /\ readable = "readable"
    /\ chunkQueue = << >>
    /\ readRequests = 0
    /\ consumed = << >>

\* The producer writes its next chunk (writer.write): a waiting pull takes it,
\* otherwise it is queued.
ProducerWrite ==
    /\ UNCHANGED << extractVars, generatorVars, iterateVars >>
    /\ producer = "active"
    /\ stream = "readable"
    /\ written < MaxChunks
    /\ written' = written + 1
    /\ IF pull = Waiting
       THEN pull' = Chunk(written + 1) /\ UNCHANGED queue
       ELSE queue' = Append(queue, written + 1) /\ UNCHANGED pull
    /\ UNCHANGED << closed, receivedChunks, listeners, hasTransform, locked, stream,
                    storedError, cancelReason, producer, producerError, pc, current,
                    reads, results, pulled, cancelPc, cancelError, calls, events,
                    terminal, listenerCancel, inMemory, legacy,
                    cancelDuring, skipped >>

\* The producer ends the stream (writer.close): queued chunks stay readable.
ProducerClose ==
    /\ UNCHANGED << extractVars, generatorVars, iterateVars >>
    /\ producer = "active"
    /\ stream = "readable"
    /\ producer' = "ended"
    /\ stream' = IF queue = << >> THEN "closed" ELSE "closing"
    /\ pull' = IF pull = Waiting THEN Done ELSE pull
    /\ UNCHANGED << closed, receivedChunks, listeners, hasTransform, locked, queue,
                    storedError, cancelReason, producerError, written, pc, current,
                    reads, results, pulled, cancelPc, cancelError, calls, events,
                    terminal, listenerCancel, inMemory, legacy,
                    cancelDuring, skipped >>

\* The producer fails (writer.abort( error )): the stream is errored, its queue
\* dropped, a waiting pull rejected.
ProducerAbort ==
    /\ UNCHANGED << extractVars, generatorVars, iterateVars >>
    /\ producer = "active"
    /\ stream = "readable"
    /\ producer' = "failed"
    /\ stream' = "errored"
    /\ storedError' = ProducerError
    /\ queue' = << >>
    /\ pull' = IF pull = Waiting THEN Failed(ProducerError) ELSE pull
    /\ UNCHANGED << closed, receivedChunks, listeners, hasTransform, locked,
                    cancelReason, producerError, written, pc, current, reads,
                    results, pulled, cancelPc, cancelError, calls, events, terminal,
                    listenerCancel, inMemory, legacy,
                    cancelDuring, skipped >>

\* The producer's pending write on a cancelled stream rejects with the reason
\* the reader cancelled with.
ProducerRejected ==
    /\ UNCHANGED << extractVars, generatorVars, iterateVars >>
    /\ producer = "active"
    /\ cancelReason # NoCancel
    /\ producer' = "rejected"
    /\ producerError' = cancelReason
    /\ UNCHANGED << closed, receivedChunks, listeners, hasTransform, locked, stream,
                    queue, storedError, cancelReason, written, pc, pull, current,
                    reads, results, pulled, cancelPc, cancelError, calls, events,
                    terminal, listenerCancel, inMemory, legacy,
                    cancelDuring, skipped >>

\* read() is called: readChunks() issues the first reader.read().
Read ==
    /\ UNCHANGED << extractVars, generatorVars, iterateVars >>
    /\ pc = "idle"
    /\ reads < MaxReads
    /\ reads' = reads + 1
    /\ pc' = "pull"
    /\ Commit(ReaderRead(Cur))
    /\ UNCHANGED << hasTransform, producer, producerError, written, current, results,
                    pulled, calls, listenerCancel, inMemory, legacy,
                    cancelDuring, skipped >>

\* The loop body after the transform: push, emit 'data' (a data listener may
\* call cancel() or abort() there), then the generator issues the next pull.
Process(out) ==
    \E lc \in BOOLEAN, kind \in CancelMethods, reason \in Reasons :
        /\ lc => listeners[DataEvent] > 0
        /\ ~lc => (kind = "cancel" /\ reason = NoReason)
        /\ LET S1 == Emit(Retain(Cur, out), DataEvent, out)
               S2 == IF lc THEN CancelStart(S1, kind, reason) ELSE S1
               made == lc /\ ~S1.closed
               skip == lc /\ S1.closed
           IN  /\ skip => (skipped < MaxCalls /\ reason = NoReason)
               /\ Commit(ReaderRead(S2))
               /\ listenerCancel' =
                    IF made
                    THEN [ at |-> Len(S1.receivedChunks), reason |-> reason,
                           kind |-> kind, src |-> S1.stream ]
                    ELSE listenerCancel
               /\ cancelDuring' =
                    IF made THEN [ pc |-> "listener", read |-> reads, pull |-> "none" ]
                    ELSE cancelDuring
               /\ skipped' = IF skip THEN skipped + 1 ELSE skipped
        /\ pc' = "pull"
        /\ current' = 0


PullChunkPullsAhead ==
    /\ UNCHANGED << extractVars, generatorVars, iterateVars >>
    /\ pc = "pull"
    /\ pull.kind = "chunk"
    /\ pulled' = Append(pulled, pull.chunk)
    /\ IF hasTransform
       THEN /\ pc' = "transform"
            /\ current' = pull.chunk
            /\ Commit(ReaderRead(Cur))
            /\ UNCHANGED << listenerCancel, cancelDuring, skipped >>
       ELSE Process(pull.chunk)
    /\ UNCHANGED << hasTransform, inMemory, legacy, producer, producerError, written, reads,
                    results, calls >>
\* The outstanding pull has settled and the loop goes on with its result.
PullChunk ==
    /\ UNCHANGED << extractVars, generatorVars, iterateVars >>
    /\ pc = "pull"
    /\ pull.kind = "chunk"
    /\ pulled' = Append(pulled, pull.chunk)
    /\ IF hasTransform
       THEN /\ pc' = "transform"
            /\ current' = pull.chunk
            /\ pull' = NoPull
            /\ UNCHANGED << closed, receivedChunks, listeners, locked, stream, queue,
                            storedError, cancelReason, cancelPc, cancelError, events,
                            terminal, listenerCancel, cancelDuring, skipped >>
       ELSE Process(pull.chunk)
    /\ UNCHANGED << hasTransform, inMemory, legacy, producer, producerError, written, reads,
                    results, calls >>

\* The awaited transform returned.
TransformOk ==
    /\ UNCHANGED << extractVars, generatorVars, iterateVars >>
    /\ pc = "transform"
    /\ Process(Transform(current))
    /\ UNCHANGED << hasTransform, inMemory, legacy, producer, producerError, written, reads,
                    results, pulled, calls >>

\* read() leaves the loop through its catch block: error( e ).
Catch(e) ==
    /\ Commit([ DoError(Cur, e) EXCEPT !.pull = NoPull ])
    /\ results' = Append(results, ErrorResult(Cur, e))
    /\ pc' = "idle"
    /\ current' = 0
    /\ UNCHANGED << hasTransform, inMemory, legacy, producer, producerError, written, reads,
                    pulled, calls, listenerCancel, cancelDuring, skipped >>

TransformThrowAfterPush ==
    /\ UNCHANGED << extractVars, generatorVars, iterateVars >>
    /\ pc = "transform"
    /\ Commit([ DoError(Accumulate(Cur, Transform(current)), TransformError)
                  EXCEPT !.pull = NoPull ])
    /\ results' = Append(results, ErrorResult(Cur, TransformError))
    /\ pc' = "idle"
    /\ current' = 0
    /\ UNCHANGED << hasTransform, inMemory, legacy, producer, producerError, written, reads,
                    pulled, calls, listenerCancel, cancelDuring, skipped >>
\* The awaited transform threw or rejected.
TransformThrow ==
    /\ UNCHANGED << extractVars, generatorVars, iterateVars >>
    /\ pc = "transform"
    /\ Catch(TransformError)

\* The pull rejected.
PullError ==
    /\ UNCHANGED << extractVars, generatorVars, iterateVars >>
    /\ pc = "pull"
    /\ pull.kind = "error"
    /\ Catch(pull.err)

\* The pull reported end-of-stream: the loop ends and read() returns
\* this.close().receivedChunks.
PullDone ==
    /\ UNCHANGED << extractVars, generatorVars, iterateVars >>
    /\ pc = "pull"
    /\ pull.kind = "done"
    /\ \E lc \in BOOLEAN, kind \in CancelMethods :
          /\ lc => (listeners["close"] > 0 /\ ~closed /\ skipped < MaxCalls)
          /\ ~lc => kind = "cancel"
          /\ Commit([ (IF lc THEN DoCloseHeard(Cur, kind, NoReason)
                             ELSE DoClose(Cur)) EXCEPT !.pull = NoPull ])
          /\ skipped' = IF lc THEN skipped + 1 ELSE skipped
    /\ results' = Append(results, ReadValue(Cur))
    /\ pc' = "idle"
    /\ UNCHANGED << hasTransform, inMemory, legacy, producer, producerError, written, current,
                    reads, pulled, calls, listenerCancel, cancelDuring >>

\* cancel( reason ) or abort( reason ) called from outside the read loop.
Cancel ==
    /\ UNCHANGED << extractVars, generatorVars, iterateVars >>
    /\ calls < MaxCalls
    /\ calls' = calls + 1
    /\ \E kind \in CancelMethods, reason \in Reasons :
          Commit(CancelStart(Cur, kind, reason))
    /\ cancelDuring' = IF closed THEN cancelDuring
                       ELSE [ pc |-> pc, read |-> reads, pull |-> pull.kind ]
    /\ UNCHANGED << hasTransform, inMemory, legacy, producer, producerError, written, pc,
                    current, reads, results, pulled, listenerCancel, skipped >>

\* The source acknowledged the cancellation: cancel() goes on after its await.
CancelAck ==
    /\ UNCHANGED << extractVars, generatorVars, iterateVars >>
    /\ cancelPc \in { "awaitSource", "awaitTick" }
    /\ Commit(CancelFinish(Cur))
    /\ UNCHANGED << hasTransform, producer, producerError, written, pc, current,
                    reads, results, pulled, calls, listenerCancel, inMemory, legacy,
                    cancelDuring, skipped >>

\* The source's cancel() rejected: cancel() rejects at its await.
CancelReject ==
    /\ UNCHANGED << extractVars, generatorVars, iterateVars >>
    /\ cancelPc = "awaitSource"
    /\ cancelPc' = "failed"
    /\ cancelError' = SourceCancelError
    /\ UNCHANGED << closed, receivedChunks, listeners, hasTransform, locked, stream,
                    queue, storedError, cancelReason, producer, producerError,
                    written, pc, pull, current, reads, results, pulled, calls,
                    events, terminal, listenerCancel, inMemory, legacy,
                    cancelDuring, skipped >>

\* close() called directly while no read() is running.
Close ==
    /\ UNCHANGED << extractVars, generatorVars, iterateVars >>
    /\ pc = "idle"
    /\ calls < MaxCalls
    /\ calls' = calls + 1
    /\ \E lc \in BOOLEAN, kind \in CancelMethods :
          /\ lc => (listeners["close"] > 0 /\ ~closed /\ skipped < MaxCalls)
          /\ ~lc => kind = "cancel"
          /\ Commit(IF lc THEN DoCloseHeard(Cur, kind, NoReason) ELSE DoClose(Cur))
          /\ skipped' = IF lc THEN skipped + 1 ELSE skipped
    /\ UNCHANGED << hasTransform, inMemory, legacy, producer, producerError, written, pc,
                    current, reads, results, pulled, listenerCancel, cancelDuring >>

\* ------------------------------------------- readChunks() iterated directly
\* next() on the suspended generator: it runs up to its `await reader.read()`.
ReadChunksNext ==
    /\ UNCHANGED << extractVars, generatorVars >>
    /\ iterator = "suspended"
    /\ iterator' = "awaiting"
    /\ nextCalls' = nextCalls + 1
    /\ Commit(ReaderRead(Cur))
    /\ UNCHANGED << hasTransform, inMemory, legacy, producer, producerError, written, pc,
                    current, reads, results, pulled, calls, listenerCancel,
                    cancelDuring, skipped, yielded, iteratorError >>

ReadChunksYieldPullsAhead ==
    /\ UNCHANGED << extractVars, generatorVars >>
    /\ iterator = "awaiting"
    /\ pull.kind = "chunk"
    /\ yielded' = Append(yielded, pull.chunk)
    /\ iterator' = "suspended"
    /\ Commit(ReaderRead([ Cur EXCEPT !.pull = NoPull ]))
    /\ UNCHANGED << hasTransform, inMemory, legacy, producer, producerError, written, pc,
                    current, reads, results, pulled, calls, listenerCancel,
                    cancelDuring, skipped, nextCalls, iteratorError >>
\* The awaited pull delivered a chunk: `yield readResult.value`.
ReadChunksYield ==
    /\ UNCHANGED << extractVars, generatorVars >>
    /\ iterator = "awaiting"
    /\ pull.kind = "chunk"
    /\ yielded' = Append(yielded, pull.chunk)
    /\ iterator' = "suspended"
    /\ Commit([ Cur EXCEPT !.pull = NoPull ])
    /\ UNCHANGED << hasTransform, inMemory, legacy, producer, producerError, written, pc,
                    current, reads, results, pulled, calls, listenerCancel,
                    cancelDuring, skipped, nextCalls, iteratorError >>

\* The awaited pull reported end-of-stream: the while loop ends, the generator
\* returns.
ReadChunksReturn ==
    /\ UNCHANGED << extractVars, generatorVars >>
    /\ iterator = "awaiting"
    /\ pull.kind = "done"
    /\ iterator' = "ended"
    /\ Commit([ Cur EXCEPT !.pull = NoPull ])
    /\ UNCHANGED << hasTransform, inMemory, legacy, producer, producerError, written, pc,
                    current, reads, results, pulled, calls, listenerCancel,
                    cancelDuring, skipped, nextCalls, yielded, iteratorError >>

\* The awaited pull rejected: the generator throws what it rejected with.
ReadChunksThrow ==
    /\ UNCHANGED << extractVars, generatorVars >>
    /\ iterator = "awaiting"
    /\ pull.kind = "error"
    /\ iterator' = "failed"
    /\ iteratorError' = pull.err
    /\ Commit([ Cur EXCEPT !.pull = NoPull ])
    /\ UNCHANGED << hasTransform, inMemory, legacy, producer, producerError, written, pc,
                    current, reads, results, pulled, calls, listenerCancel,
                    cancelDuring, skipped, nextCalls, yielded >>

\* A consumer iterating readChunks() while the producer writes, ends or aborts.
IterateNext ==
    \/ ProducerWrite
    \/ ProducerClose
    \/ ProducerAbort
    \/ ReadChunksNext
    \/ ReadChunksYield
    \/ ReadChunksReturn
    \/ ReadChunksThrow

Next ==
    \/ ProducerWrite
    \/ ProducerClose
    \/ ProducerAbort
    \/ ProducerRejected
    \/ Read
    \/ PullChunk
    \/ TransformOk
    \/ TransformThrow
    \/ PullError
    \/ PullDone
    \/ Cancel
    \/ CancelAck
    \/ CancelReject
    \/ Close

\* The earlier reader has no transform to await.
LegacyNext ==
    \/ ProducerWrite
    \/ ProducerClose
    \/ ProducerAbort
    \/ ProducerRejected
    \/ Read
    \/ PullChunk
    \/ PullError
    \/ PullDone
    \/ Cancel
    \/ CancelAck
    \/ CancelReject
    \/ Close

\* ------------------------------------------------ extractBytesFromReadable
UnderflowError == "The extracted data Buffer length is less than the expected length."
StreamError == "Stream error"

Min(a, b) == IF a < b THEN a ELSE b
Max(a, b) == IF a > b THEN a ELSE b

\* clamp( value, min, Infinity ) of @alessiofrittoli/math-utils
ClampNone(value, min) == value
ClampMin(value, min) == Max(value, min)

bytesToExtract == ClampMin(bytes, 0)

\* Buffer.subarray( start, end ): the bytes at offsets start .. end - 1.
Subarray(buf, start, end) == SubSeq(buf, start + 1, Min(end, Len(buf)))

RECURSIVE Concat(_)
\* Buffer.concat( list )
Concat(list) == IF list = << >> THEN << >> ELSE Head(list) \o Concat(Tail(list))

\* The closure state of one call, as one record.
Ext ==
    [ ExtractedData |-> ExtractedData, bytesRead |-> bytesRead, resolved |-> resolved,
      promise |-> promise, promiseValue |-> promiseValue,
      promiseError |-> promiseError, pushes |-> pushes ]

CommitExt(X) ==
    /\ ExtractedData' = X.ExtractedData
    /\ bytesRead' = X.bytesRead
    /\ resolved' = X.resolved
    /\ promise' = X.promise
    /\ promiseValue' = X.promiseValue
    /\ promiseError' = X.promiseError
    /\ pushes' = X.pushes

\* resolve( [ ExtractedData, this ] ) and reject( error ): a settled Promise
\* stays as it is.
Resolve(X, data) ==
    IF X.promise = "pending"
    THEN [ X EXCEPT !.promise = "resolved", !.promiseValue = data ]
    ELSE X

RejectOverrides(X, error) ==
    [ X EXCEPT !.promise = "rejected", !.promiseError = error ]
Reject(X, error) ==
    IF X.promise = "pending"
    THEN [ X EXCEPT !.promise = "rejected", !.promiseError = error ]
    ELSE X

\* this.push( chunk, encoding )
Push(X, chunk) == [ X EXCEPT !.pushes = Append(@, chunk) ]

\* `if ( ! resolved && ExtractedData.length === bytesToExtract )`
ResolveAtOnce(X) ==
    IF ~X.resolved
    THEN Resolve([ X EXCEPT !.resolved = TRUE ], X.ExtractedData)
    ELSE X
ResolveIfComplete(X) ==
    IF ~X.resolved /\ Len(X.ExtractedData) = bytesToExtract
    THEN Resolve([ X EXCEPT !.resolved = TRUE ], X.ExtractedData)
    ELSE X

\* The `bytesRead < bytesToExtract` branch of transform().
ExtractBranchSlicesChunk(X, chunk) ==
    LET all == Concat(<< X.ExtractedData, chunk >>)
        hasByteLoss == Len(all) > bytesToExtract
        bytesLoss == Subarray(chunk, bytesToExtract, Len(chunk))
        X1 == [ X EXCEPT !.ExtractedData = Subarray(all, 0, bytesToExtract),
                         !.bytesRead = @ + Len(chunk) ]
        X2 == IF hasByteLoss THEN Push(X1, bytesLoss) ELSE X1
    IN  ResolveIfComplete(X2)
ExtractBranchKeepsAll(X, chunk) ==
    LET all == Concat(<< X.ExtractedData, chunk >>)
        X1 == [ X EXCEPT !.ExtractedData = all, !.bytesRead = @ + Len(chunk) ]
    IN  ResolveIfComplete(X1)
ExtractBranchForwardsToo(X, chunk) ==
    LET all == Concat(<< X.ExtractedData, chunk >>)
        hasByteLoss == Len(all) > bytesToExtract
        bytesLoss == Subarray(all, bytesToExtract, Len(all))
        X1 == [ X EXCEPT !.ExtractedData = Subarray(all, 0, bytesToExtract),
                         !.bytesRead = @ + Len(chunk) ]
        X2 == IF hasByteLoss THEN Push(X1, bytesLoss) ELSE Push(X1, chunk)
    IN  ResolveIfComplete(X2)
ExtractBranch(X, chunk) ==
    LET all == Concat(<< X.ExtractedData, chunk >>)
        hasByteLoss == Len(all) > bytesToExtract
        bytesLoss == Subarray(all, bytesToExtract, Len(all))
        X1 == [ X EXCEPT !.ExtractedData = Subarray(all, 0, bytesToExtract),
                         !.bytesRead = @ + Len(chunk) ]
        X2 == IF hasByteLoss THEN Push(X1, bytesLoss) ELSE X1
    IN  ResolveIfComplete(X2)

\* The rest of transform(): the chunk is forwarded as it came.
ForwardBranchSwallows(X, chunk) ==
    [ ResolveIfComplete(X) EXCEPT !.bytesRead = @ + Len(chunk) ]
ForwardBranchExtracts(X, chunk) ==
    Push([ ResolveIfComplete(X) EXCEPT !.bytesRead = @ + Len(chunk),
                                       !.ExtractedData = @ \o chunk ], chunk)
ForwardBranch(X, chunk) ==
    Push([ ResolveIfComplete(X) EXCEPT !.bytesRead = @ + Len(chunk) ], chunk)

\* Transform.transform( chunk, encoding, callback )
TransformChunk(X, chunk) ==
    IF X.bytesRead < bytesToExtract
    THEN ExtractBranch(X, chunk)
    ELSE ForwardBranch(X, chunk)

\* Transform.final( callback ): whether it calls back with the underflow Error.
FinalFailsOffByOne(X) == Len(X.ExtractedData) < bytesToExtract - 1
FinalFailsAtBoundary(X) == Len(X.ExtractedData) <= bytesToExtract
FinalFails(X) == Len(X.ExtractedData) < bytesToExtract

ExtractInit ==
    \* readChunks() is not iterated from outside read() yet
    /\ iterator = "suspended"
    /\ nextCalls = 0
    /\ yielded = << >>
    /\ iteratorError = ""
    /\ bytes \in (0 - 2) .. MaxTarget
    /\ ExtractedData = << >>
    /\ bytesRead = 0
    /\ resolved = FALSE
    /\ promise = "pending"
    /\ promiseValue = << >>
    /\ promiseError = ""
    /\ pushes = << >>
    /\ chunks = << >>
    /\ input = "flowing"
    /\ transform = "open"
    /\ transformError = ""
    \* no reader runs beside the extraction
    /\ closed = FALSE
    /\ receivedChunks = << >>
    /\ listeners = [ e \in EventNames |-> 0 ]
    /\ hasTransform = FALSE
    /\ locked = TRUE
    /\ stream = "readable"
    /\ queue = << >>
    /\ storedError = ""
    /\ cancelReason = NoCancel
    /\ producer = "active"
    /\ producerError = NoCancel
    /\ written = 0
    /\ pc = "idle"
    /\ pull = NoPull
    /\ current = 0
    /\ reads = 0
    /\ results = << >>
    /\ pulled = << >>
    /\ cancelPc = "none"
    /\ cancelError = ""
    /\ calls = 0
    /\ events = << >>
    /\ terminal = "none"
    /\ listenerCancel = NoListenerCancel
    /\ inMemory = TRUE
    /\ legacy = FALSE
    /\ cancelDuring = NotCancelled
    /\ skipped = 0
    \* no generator is wrapped
    /\ generatorValues = << >>
    /\ generatorThrows = FALSE
    /\ nexts = 0
    /\ pulls = 0
    /\ pulling = "no"
    /\ pullAgain = FALSE
    /\ started = FALSE
    /\ closeRequested = FALSE
    /\ readable = "readable"
    /\ chunkQueue = << >>
    /\ readRequests = 0
    /\ consumed = << >>

\* The bytes `input` has delivered so far.
Delivered == Len(Concat(chunks))

\* `input` delivers its next chunk and the pipe hands it to transform().
InputData ==
    /\ UNCHANGED << readerVars, generatorVars, iterateVars >>
    /\ input = "flowing"
    /\ transform = "open"
    /\ \E len \in 1 .. MaxChunkLen :
          /\ Delivered + len <= MaxBytes
          /\ LET chunk == [ i \in 1 .. len |-> Delivered + i ]
             IN  /\ chunks' = Append(chunks, chunk)
                 /\ CommitExt(TransformChunk(Ext, chunk))
    /\ UNCHANGED << bytes, input, transform, transformError >>

\* `input` ends: the pipe ends the Transform, which runs final(); an Error
\* handed to its callback is emitted as 'error', whose listener is reject.
InputEnd ==
    /\ UNCHANGED << readerVars, generatorVars, iterateVars >>
    /\ input = "flowing"
    /\ transform = "open"
    /\ input' = "ended"
    /\ IF FinalFails(Ext)
       THEN /\ transform' = "errored"
            /\ transformError' = UnderflowError
            /\ CommitExt(Reject(Ext, UnderflowError))
       ELSE /\ transform' = "ended"
            /\ UNCHANGED transformError
            /\ CommitExt(Ext)
    /\ UNCHANGED << bytes, chunks >>

\* `input` emits 'error': transform.destroy( error ), then reject( error ).
InputError ==
    /\ UNCHANGED << readerVars, generatorVars, iterateVars >>
    /\ input = "flowing"
    /\ transform = "open"
    /\ input' = "errored"
    /\ transform' = "destroyed"
    /\ transformError' = StreamError
    /\ CommitExt(Reject(Ext, StreamError))
    /\ UNCHANGED << bytes, chunks >>

ExtractNext ==
    \/ InputData
    \/ InputEnd
    \/ InputError

\* ------------------------------------------------ generatorToReadableStream
\* new ReadableStream( { pull } ) is built with the default queuing strategy.
HighWaterMark == 1

\* What a consumer's reader.read() settled with.
ReadValueResult(v) == [ done |-> FALSE, value |-> v, error |-> FALSE ]
ReadDoneResult == [ done |-> TRUE, value |-> 0, error |-> FALSE ]
ReadErrorResult == [ done |-> FALSE, value |-> 0, error |-> TRUE ]

\* The produced stream, its controller and the generator's position.
Gen ==
    [ nexts |-> nexts, pulls |-> pulls, pulling |-> pulling, pullAgain |-> pullAgain,
      started |-> started, closeRequested |-> closeRequested, readable |-> readable,
      chunkQueue |-> chunkQueue, readRequests |-> readRequests, consumed |-> consumed ]

CommitGen(G) ==
    /\ nexts' = G.nexts
    /\ pulls' = G.pulls
    /\ pulling' = G.pulling
    /\ pullAgain' = G.pullAgain
    /\ started' = G.started
    /\ closeRequested' = G.closeRequested
    /\ readable' = G.readable
    /\ chunkQueue' = G.chunkQueue
    /\ readRequests' = G.readRequests
    /\ consumed' = G.consumed

RECURSIVE Repeat(_, _)
Repeat(x, n) == IF n = 0 THEN << >> ELSE << x >> \o Repeat(x, n - 1)

\* ReadableStreamDefaultControllerShouldCallPull
ShouldCallPull(G) ==
    /\ G.readable = "readable"
    /\ ~G.closeRequested
    /\ G.started
    /\ (G.readRequests > 0 \/ Len(G.chunkQueue) < HighWaterMark)

\* ReadableStreamDefaultControllerCallPullIfNeeded: pull( controller ) is
\* called, and runs up to `await generator.next()`.
CallPullIfNeeded(G) ==
    IF ~ShouldCallPull(G) THEN G
    ELSE IF G.pulling # "no" THEN [ G EXCEPT !.pullAgain = TRUE ]
    ELSE [ G EXCEPT !.pulling = "awaitNext", !.pulls = @ + 1, !.nexts = @ + 1 ]

\* controller.enqueue( value )
ControllerEnqueue(G, value) ==
    CallPullIfNeeded(
        IF G.readRequests > 0
        THEN [ G EXCEPT !.readRequests = @ - 1,
                        !.consumed = Append(@, ReadValueResult(value)) ]
        ELSE [ G EXCEPT !.chunkQueue = Append(@, value) ])

\* ReadableStreamClose: the pending reads resolve with done.
StreamClose(G) ==
    [ G EXCEPT !.readable = "closed",
               !.consumed = @ \o Repeat(ReadDoneResult, G.readRequests),
               !.readRequests = 0 ]

\* controller.close()
ControllerClose(G) ==
    IF G.chunkQueue = << >>
    THEN StreamClose([ G EXCEPT !.closeRequested = TRUE ])
    ELSE [ G EXCEPT !.closeRequested = TRUE ]

\* The pull() promise rejected: the stream is errored, the pending reads reject.
ControllerError(G) ==
    [ G EXCEPT !.readable = "errored",
               !.chunkQueue = << >>,
               !.consumed = @ \o Repeat(ReadErrorResult, G.readRequests),
               !.readRequests = 0,
               !.pulling = "no" ]

\* The consumer's reader.read()
DefaultReaderRead(G) ==
    IF G.readable = "closed" THEN [ G EXCEPT !.consumed = Append(@, ReadDoneResult) ]
    ELSE IF G.readable = "errored"
    THEN [ G EXCEPT !.consumed = Append(@, ReadErrorResult) ]
    ELSE IF G.chunkQueue # << >>
    THEN LET G1 == [ G EXCEPT !.chunkQueue = Tail(@),
                              !.consumed = Append(@, ReadValueResult(Head(G.chunkQueue))) ]
         IN  IF G1.closeRequested /\ G1.chunkQueue = << >>
             THEN StreamClose(G1)
             ELSE CallPullIfNeeded(G1)
    ELSE CallPullIfNeeded([ G EXCEPT !.readRequests = @ + 1 ])

\* `const { value, done } = await generator.next()` for the k-th next() call.
GeneratorDone(k) == k > Len(generatorValues)

\* The rest of pull(): `if ( ! done ) return controller.enqueue( value )`,
\* `return controller.close()`.
PullResultClosesEarly(G) ==
    IF G.nexts >= Len(generatorValues)
    THEN ControllerClose(G)
    ELSE ControllerEnqueue(G, generatorValues[G.nexts])
PullResult(G) ==
    IF ~GeneratorDone(G.nexts)
    THEN ControllerEnqueue(G, generatorValues[G.nexts])
    ELSE ControllerClose(G)

GeneratorInit ==
    \* readChunks() is not iterated from outside read() yet
    /\ iterator = "suspended"
    /\ nextCalls = 0
    /\ yielded = << >>
    /\ iteratorError = ""
    /\ \E n \in 0 .. MaxValues : generatorValues = [ i \in 1 .. n |-> i + 10 ]
    /\ generatorThrows \in BOOLEAN
    /\ nexts = 0
    /\ pulls = 0
    /\ pulling = "no"
    /\ pullAgain = FALSE
    /\ started = FALSE
    /\ closeRequested = FALSE
    /\ readable = "readable"
    /\ chunkQueue = << >>
    /\ readRequests = 0
    /\ consumed = << >>
    \* no reader and no extraction run beside it
    /\ closed = FALSE
    /\ receivedChunks = << >>
    /\ listeners = [ e \in EventNames |-> 0 ]
    /\ hasTransform = FALSE
    /\ locked = TRUE
    /\ stream = "readable"
    /\ queue = << >>
    /\ storedError = ""
    /\ cancelReason = NoCancel
    /\ producer = "active"
    /\ producerError = NoCancel
    /\ written = 0
    /\ pc = "idle"
    /\ pull = NoPull
    /\ current = 0
    /\ reads = 0
    /\ results = << >>
    /\ pulled = << >>
    /\ cancelPc = "none"
    /\ cancelError = ""
    /\ calls = 0
    /\ events = << >>
    /\ terminal = "none"
    /\ listenerCancel = NoListenerCancel
    /\ inMemory = TRUE
    /\ legacy = FALSE
    /\ cancelDuring = NotCancelled
    /\ skipped = 0
    /\ bytes = 0
    /\ ExtractedData = << >>
    /\ bytesRead = 0
    /\ resolved = FALSE
    /\ promise = "pending"
    /\ promiseValue = << >>
    /\ promiseError = ""
    /\ pushes = << >>
    /\ chunks = << >>
    /\ input = "flowing"
    /\ transform = "open"
    /\ transformError = ""

\* The stream has started: the controller pulls for the first time.
Start ==
    /\ UNCHANGED << readerVars, extractVars, iterateVars >>
    /\ ~started
    /\ CommitGen(CallPullIfNeeded([ Gen EXCEPT !.started = TRUE ]))
    /\ UNCHANGED << generatorValues, generatorThrows >>

\* The consumer calls reader.read().
ConsumerRead ==
    /\ UNCHANGED << readerVars, extractVars, iterateVars >>
    /\ Len(consumed) + readRequests < MaxConsumerReads
    /\ CommitGen(DefaultReaderRead(Gen))
    /\ UNCHANGED << generatorValues, generatorThrows >>

\* The awaited generator.next() settled and pull() runs to its end; when the
\* generator threw, pull() rejects and the stream is errored.
NextSettles ==
    /\ UNCHANGED << readerVars, extractVars, iterateVars >>
    /\ pulling = "awaitNext"
    /\ IF GeneratorDone(nexts) /\ generatorThrows
       THEN CommitGen(ControllerError(Gen))
       ELSE CommitGen([ PullResult(Gen) EXCEPT !.pulling = "returning" ])
    /\ UNCHANGED << generatorValues, generatorThrows >>

\* The pull() promise is fulfilled: the controller pulls again if asked to.
PullReturns ==
    /\ UNCHANGED << readerVars, extractVars, iterateVars >>
    /\ pulling = "returning"
    /\ CommitGen(IF pullAgain
                 THEN CallPullIfNeeded([ Gen EXCEPT !.pulling = "no",
                                                    !.pullAgain = FALSE ])
                 ELSE [ Gen EXCEPT !.pulling = "no" ])
    /\ UNCHANGED << generatorValues, generatorThrows >>

GeneratorNext ==
    \/ Start
    \/ ConsumerRead
    \/ NextSettles
    \/ PullReturns

\* ------------------------------------------------------- the specifications
vars == << readerVars, extractVars, generatorVars, iterateVars >>

\* The StreamReader.
Spec == Init /\ [][Next]_vars

\* The StreamReader with accumulation disabled.
NoMemorySpec == NoMemoryInit /\ [][Next]_vars

\* The earlier StreamReader<T> of src/index.ts.
LegacySpec == LegacyInit /\ [][LegacyNext]_vars

\* The StreamReader on a source that eventually ends or fails unless it is
\* cancelled first, with a transform that returns or throws: a settled pull
\* resumes the loop, and the awaited transform comes back.
Fairness ==
    /\ WF_vars(ProducerClose \/ ProducerAbort)
    /\ WF_vars(PullChunk)
    /\ WF_vars(TransformOk \/ TransformThrow)
    /\ WF_vars(PullError)
    /\ WF_vars(PullDone)

FairSpec == Spec /\ Fairness

\* readChunks() consumed directly, without read().
IterateSpec == Init /\ [][IterateNext]_vars

\* generatorToReadableStream.
GeneratorSpec == GeneratorInit /\ [][GeneratorNext]_vars

\* extractBytesFromReadable.
ExtractSpec == ExtractInit /\ [][ExtractNext]_vars

\* extractBytesFromReadable on a source that goes on until it ends or errors:
\* a flowing source keeps emitting, so one of its steps is eventually taken.
ExtractFairSpec == ExtractSpec /\ WF_vars(ExtractNext)

\* ------------------------------------------------------------ the claims
\* What read() is to hand out for chunk c, and for a list of chunks.
Processed(c) == IF hasTransform THEN Transform(c) ELSE c

RECURSIVE ProcessedAll(_)
ProcessedAll(cs) ==
    IF cs = << >> THEN << >> ELSE << Processed(Head(cs)) >> \o ProcessedAll(Tail(cs))

\* What the producer wrote: chunk i is the number i.
Written == [ i \in 1 .. written |-> i ]

Named(names) == SelectSeq(events, LAMBDA e : e.name \in names)
TerminalEvents == Named({ "close", "cancel", "abort" })
ErrorEvents == Named({ "error" })

\* A cancel() / abort() call is suspended at its await.
CancelInFlight == cancelPc \in { "awaitSource", "awaitTick" }

\* C1: when the source ends normally and read() ends through close() (no cancel,
\* no error), read() resolves with one entry per pulled chunk, in pull order,
\* entry i being transform( chunk i ), or chunk i without a transform; the pulled
\* chunks are all the chunks the producer wrote.
C1_ReadResolvesWithTransformedChunksInPullOrder ==
    ( /\ Len(results) >= 1
      /\ results[1].kind = "resolved"
      /\ terminal = "close"
      /\ ErrorEvents = << >> )
    => ( /\ results[1].value = ProcessedAll(pulled)
         /\ pulled = Written
         /\ Len(results[1].value) = written )

C1_Witness ==
    /\ Len(results) >= 1
    /\ results[1].kind = "resolved"
    /\ terminal = "close"
    /\ ErrorEvents = << >>
    /\ hasTransform
    /\ results[1].value = << Transform(1), Transform(2) >>

\* C2: whatever close(), cancel() and abort() calls are made, and in whatever
\* order, at most one of the events close, cancel, abort is ever emitted, and
\* exactly one once a close, cancel or abort has closed the reader: no later
\* call emits another.
C2_ExactlyOneTerminalEvent ==
    /\ Len(TerminalEvents) <= 1
    /\ terminal \in { "close", "cancel", "abort" } <=> Len(TerminalEvents) = 1
    /\ Len(TerminalEvents) = 1 => TerminalEvents[1].name = terminal

C2_Witness ==
    /\ calls >= 2
    /\ Len(results) >= 1
    /\ results[1].kind = "resolved"
    /\ terminal = "close"
    /\ Len(TerminalEvents) = 1

\* C3: once a terminal transition has taken place (close() returned, error()
\* ran, or the cancel() / abort() call is no longer suspended at its await),
\* no 'data' and no 'close' listener is left.
C3_NoDataOrCloseListenerAfterTerminal ==
    (closed /\ ~CancelInFlight)
    => (listeners["data"] = 0 /\ listeners["close"] = 0)

\* C4: when a data listener calls cancel( reason ) or abort( reason ) while
\* chunk k is handled and the source has not failed, no later chunk is ever
\* added and read() resolves with exactly the first k chunks; when the producer
\* is still writing, its pending write can only reject, with the exception
\* carrying that reason.
C4_CancelFromDataListenerKeepsFirstK ==
    LET k == listenerCancel.at
        firstK == ProcessedAll([ i \in 1 .. k |-> i ])
    IN  /\ listenerCancel.src \in { "readable", "closing", "closed" }
             => ( /\ receivedChunks = firstK
                  /\ Len(results) >= 1 => results[1] = Resolved(firstK) )
        /\ listenerCancel.src = "readable"
             => ( /\ producer \in { "active", "rejected" }
                  /\ written >= k
                  /\ producer = "rejected"
                       => producerError = Exception(listenerCancel.kind,
                                                    listenerCancel.reason) )

C4_Witness ==
    /\ listenerCancel.src = "readable"
    /\ listenerCancel.at = 1
    /\ listenerCancel.reason # NoReason
    /\ Len(results) = 1
    /\ results[1].value = << Processed(1) >>
    /\ producer = "rejected"
    /\ producerError.message = listenerCancel.reason

\* C5: with no 'error' listener, a read() whose pull rejects with e (the source
\* failed, or the pull threw) rejects with e in that step and emits nothing;
\* no 'error' event is ever emitted.
C5_UnheardErrorRejectsRead ==
    /\ [](listeners["error"] = 0 => ErrorEvents = << >>)
    /\ [][ ( /\ pc = "pull"
             /\ pull.kind = "error"
             /\ pc' = "idle"
             /\ listeners["error"] = 0 )
           => ( /\ results' = Append(results, Rejected(pull.err))
                /\ pull.err \in { storedError, InvalidState }
                /\ events' = events ) ]_vars

C5_Witness ==
    /\ listeners["error"] = 0
    /\ stream = "errored"
    /\ Len(pulled) >= 1
    /\ Len(results) = 1
    /\ results[1] = Rejected(ProducerError)
    /\ ErrorEvents = << >>

\* C6: with an 'error' listener, a read() whose pull rejects with e does not
\* reject: it resolves with the chunks accumulated before the failure (every
\* chunk pulled so far, transformed) and emits 'error' once, with e; the
\* listener has not been called before during that read().
C6_HeardErrorResolvesRead ==
    /\ []( (reads <= 1 /\ pc # "idle") => ErrorEvents = << >> )
    /\ [][ ( /\ pc = "pull"
             /\ pull.kind = "error"
             /\ pc' = "idle"
             /\ listeners["error"] > 0 )
           => ( /\ results' = Append(results, Resolved(receivedChunks))
                /\ receivedChunks' = receivedChunks
                /\ reads = 1 => receivedChunks = ProcessedAll(pulled)
                /\ events' = Append(events, [ name |-> "error", arg |-> pull.err,
                                              heard |-> TRUE ]) ) ]_vars

C6_Witness ==
    /\ listeners["error"] > 0
    /\ stream = "errored"
    /\ reads = 1
    /\ Len(results) = 1
    /\ results[1] = Resolved(<< Processed(1) >>)
    /\ Len(ErrorEvents) = 1
    /\ ErrorEvents[1].arg = ProducerError

\* C7: once the reader has been closed by a terminal transition, a second
\* read() made with no 'error' listener rejects with the invalid-state error.
C7_SecondReadRejectsWithInvalidState ==
    ( /\ Len(results) >= 2
      /\ listeners["error"] = 0
      /\ ~CancelInFlight )
    => results[2] = Rejected(InvalidState)

\* What extractBytesFromReadable's source delivered, as one Buffer.
Source == Concat(chunks)

\* C8: for every chunking and every target within the source's length, the
\* extracted Buffer followed by everything pushed to the continuation is the
\* source, byte for byte; the promise resolves with that Buffer as soon as the
\* source has delivered target bytes in at least one chunk.
C8_ExtractedThenContinuationIsSource ==
    /\ promise = "resolved"
         => (promiseValue = ExtractedData /\ promiseValue \o Concat(pushes) = Source)
    /\ (bytesToExtract <= Delivered /\ chunks # << >>) => promise = "resolved"
    /\ (input = "ended" /\ bytesToExtract <= Delivered)
         => ExtractedData \o Concat(pushes) = Source

C8_Witness ==
    /\ input = "ended"
    /\ transform = "ended"
    /\ promise = "resolved"
    /\ Len(chunks) >= 3
    /\ Len(promiseValue) >= 2
    /\ Len(pushes) >= 2
    /\ promiseValue \o Concat(pushes) = Source

\* C9: if the source ends after delivering fewer bytes than the target, the
\* promise is rejected with the underflow error; it is not resolved while
\* fewer bytes than the target have been delivered.
C9_UnderflowRejects ==
    /\ Delivered < bytesToExtract => promise # "resolved"
    /\ (input = "ended" /\ Delivered < bytesToExtract)
         => (promise = "rejected" /\ promiseError = UnderflowError)

C9_Witness ==
    /\ input = "ended"
    /\ Delivered >= 1
    /\ Delivered < bytesToExtract
    /\ promise = "rejected"
    /\ promiseError = UnderflowError

\* The bytes delivered by the first k chunks.
Upto(k) == Len(Concat(SubSeq(chunks, 1, k)))

\* The chunk in which the target is reached.
BoundaryChunk == CHOOSE k \in 1 .. Len(chunks) : Upto(k - 1) < bytesToExtract
                                                /\ bytesToExtract <= Upto(k)

\* C10: when the promise is resolved its Buffer is the first targetBytes bytes
\* of the source; when the chunk reaching the target goes beyond it, its
\* remaining bytes are the first push to the continuation, and every later
\* chunk is pushed after it, as it came.
C10_SplitAtBoundaryIsExact ==
    (promise = "resolved" /\ bytesToExtract > 0)
    => LET k == BoundaryChunk
           rest == Subarray(chunks[k], bytesToExtract - Upto(k - 1), Len(chunks[k]))
           later == SubSeq(chunks, k + 1, Len(chunks))
       IN  /\ promiseValue = SubSeq(Source, 1, bytesToExtract)
           /\ pushes = IF rest = << >> THEN later ELSE << rest >> \o later

C10_Witness ==
    /\ bytes = 7
    /\ chunks = << << 1, 2, 3 >>, << 4, 5, 6, 7, 8 >>, << 9, 10, 11, 12 >> >>
    /\ promise = "resolved"
    /\ promiseValue = << 1, 2, 3, 4, 5, 6, 7 >>
    /\ pushes = << << 8 >>, << 9, 10, 11, 12 >> >>
    /\ input = "ended"

\* C11: for a target of zero or less the target used is 0, the extracted Buffer
\* is empty (also the one the promise resolves with), and every chunk of the
\* source is pushed to the continuation unchanged and in order.
C11_NonPositiveTargetForwardsEverything ==
    bytes <= 0
    => ( /\ bytesToExtract = 0
         /\ ExtractedData = << >>
         /\ promise = "resolved" => promiseValue = << >>
         /\ pushes = chunks )

C11_Witness ==
    /\ bytes < 0
    /\ input = "ended"
    /\ Len(chunks) >= 2
    /\ promise = "resolved"
    /\ promiseValue = << >>
    /\ pushes = chunks

\* C12: for a target of zero or less the promise is resolved for every source,
\* at the latest when the source has ended, whatever it delivered.
C12_NonPositiveTargetAlwaysResolves ==
    (bytes <= 0 /\ input = "ended") => promise = "resolved"

\* C14: once the source has failed, the continuation is destroyed with the
\* source's error; a promise that had not been resolved is rejected with that
\* error, and one that had been resolved keeps the Buffer it resolved with.
C14_SourceErrorPropagates ==
    input = "errored"
    => ( /\ transform = "destroyed"
         /\ transformError = StreamError
         /\ ~resolved => (promise = "rejected" /\ promiseError = StreamError)
         /\ resolved => ( /\ promise = "resolved"
                          /\ promiseValue = SubSeq(Source, 1, bytesToExtract) ) )

C14_Witness ==
    /\ input = "errored"
    /\ Delivered >= 1
    /\ Delivered < bytesToExtract
    /\ transform = "destroyed"
    /\ promise = "rejected"
    /\ promiseError = StreamError

CancelEvents == Named({ "cancel", "abort" })
AllTerminalEvents == Named({ "close", "cancel", "abort", "error" })

\* C13: a cancel() or abort() call that finds the reader closed (made from
\* outside after a close or a cancel, or while an earlier cancel() is suspended,
\* or made by a 'data' or 'close' listener) emits no cancel / abort event, does
\* not call the source's cancel again and does not suspend or reject; made from
\* outside it leaves the whole reader as it was.
C13_CancelOnClosedReaderChangesNothing ==
    [][ ( skipped' # skipped \/ (closed /\ calls' # calls) )
        => ( /\ CancelEvents' = CancelEvents
             /\ cancelReason' = cancelReason
             /\ cancelPc' = cancelPc
             /\ cancelError' = cancelError
             /\ (closed /\ calls' # calls)
                  => UNCHANGED << closed, receivedChunks, listeners, locked, stream,
                                  queue, storedError, pull, events, terminal, pc,
                                  results >> ) ]_vars

C13_Witness ==
    /\ skipped >= 1
    /\ calls >= 2
    /\ CancelInFlight
    /\ terminal \in CancelKinds
    /\ Len(CancelEvents) = 1
    /\ Len(AllTerminalEvents) = 1

C17_AtMostOneTerminalOrErrorEvent ==
    Len(AllTerminalEvents) <= 1

\* C18: once the reader is closed and no cancel() is suspended at its await,
\* the lock on the source has been released.
C18_TerminalTransitionReleasesSource ==
    (closed /\ ~CancelInFlight) => ~locked

\* C19: no 'data' event is emitted after a close, cancel, abort or error event.
C19_NoDataAfterTerminalEvent ==
    \A i, j \in 1 .. Len(events) :
        (i < j /\ events[i].name \in { "close", "cancel", "abort", "error" })
        => events[j].name # "data"

\* C20: a read() during which cancel() or abort() took effect (at a pending
\* pull, during the awaited transform, or in a data listener) does not reject
\* with the reader's invalid-state error, and no 'error' event carries it.
C20_CancelNeverSurfacesAsException ==
    LET r == cancelDuring.read
    IN  cancelDuring.pc \in { "pull", "transform", "listener" }
        => ( /\ Len(results) >= r => results[r] # Rejected(InvalidState)
             /\ reads = r
                  => \A i \in 1 .. Len(ErrorEvents) : ErrorEvents[i].arg # InvalidState )

\* The values the consumer's reads resolved with, in order.
ConsumedValues ==
    LET got == SelectSeq(consumed, LAMBDA r : ~r.done /\ ~r.error)
    IN  [ i \in 1 .. Len(got) |-> got[i].value ]

\* The generator.next() calls that have settled, and whether the last of them
\* reported the generator's completion.
SettledNexts == IF pulling = "awaitNext" THEN nexts - 1 ELSE nexts
GeneratorCompleted == SettledNexts > Len(generatorValues) /\ ~generatorThrows

\* C15: every pull() of the produced stream calls generator.next() exactly once
\* and never again once the generator is done; the values read from the stream
\* followed by those still queued are exactly the values the generator has
\* yielded so far, in its order; the stream is closed (or closing) exactly when
\* the generator has completed, and a read resolves with done only then, after
\* every value has been read.
C15_StreamYieldsGeneratorValuesThenEnds ==
    /\ pulls = nexts
    /\ nexts <= Len(generatorValues) + 1
    /\ readable # "errored"
         => ConsumedValues \o chunkQueue
              = SubSeq(generatorValues, 1, Min(SettledNexts, Len(generatorValues)))
    /\ readable = "errored"
         => ( /\ generatorThrows
              /\ ConsumedValues = SubSeq(generatorValues, 1, Len(ConsumedValues)) )
    /\ (readable = "closed" \/ closeRequested) <=> GeneratorCompleted
    /\ \A i \in 1 .. Len(consumed) :
          consumed[i].done
          => ( /\ GeneratorCompleted
               /\ i > Len(generatorValues)
               /\ ConsumedValues = generatorValues )

C15_Witness ==
    /\ Len(generatorValues) = 3
    /\ ~generatorThrows
    /\ readable = "closed"
    /\ pulls = 4
    /\ nexts = 4
    /\ consumed = << ReadValueResult(11), ReadValueResult(12), ReadValueResult(13),
                     ReadDoneResult >>

\* C21: when cancel() or abort() is called while a pull is pending, that pull
\* settles as end-of-stream and read() resolves; and once that read() has
\* resolved, the source has been released and no data, close or cancel
\* listener is left.
C21_CleanupDoneWhenReadResolves ==
    LET r == cancelDuring.read
    IN  ( /\ cancelDuring.pc = "pull"
          /\ cancelDuring.pull = "waiting"
          /\ Len(results) >= r )
        => ( /\ results[r].kind = "resolved"
             /\ ~locked
             /\ \A e \in { "data", "close", "cancel" } : listeners[e] = 0 )

DataEvents == Named({ "data" })

\* C22: in every step taken while closed is true, the accumulated list stays
\* as it is.
C22_AccumulatedFrozenOnceClosed ==
    [][ closed => receivedChunks' = receivedChunks ]_vars

\* C23: whenever a cancel or abort event has been emitted, the source has
\* already been released.
C23_CancelEventOnlyAfterSourceReleased ==
    CancelEvents # << >> => ~locked

\* C24: when read() reaches the natural end of the stream on an open reader,
\* close() marks it closed, releases the source, emits one close event carrying
\* the accumulated list, heard by the close listeners registered at that
\* moment, and then removes the data, close and cancel listeners; the error
\* listeners stay, and read() resolves with the very list the event carried.
C24_CloseEmitsThenRemovesListeners ==
    [][ (~closed /\ pc = "pull" /\ pull.kind = "done" /\ pc' = "idle")
        => ( /\ closed'
             /\ ~locked'
             /\ events' = Append(events, [ name |-> "close", arg |-> receivedChunks,
                                           heard |-> listeners["close"] > 0 ])
             /\ results' = Append(results, Resolved(receivedChunks))
             /\ receivedChunks' = receivedChunks
             /\ \A e \in { "data", "close", "cancel" } : listeners'[e] = 0
             /\ listeners'["error"] = listeners["error"] ) ]_vars

C24_Witness ==
    /\ terminal = "close"
    /\ Len(TerminalEvents) = 1
    /\ TerminalEvents[1].heard
    /\ Len(TerminalEvents[1].arg) >= 2
    /\ results = << Resolved(TerminalEvents[1].arg) >>
    /\ listeners["close"] = 0
    /\ listeners["error"] = 1
    /\ ~locked

\* C25: once the error path has closed the reader, the reader is closed, no
\* data, close or cancel listener is left, and no close (nor cancel / abort)
\* event has been or will be emitted, with or without an error listener.
C25_ErrorPathNeverEmitsClose ==
    terminal = "error"
    => ( /\ closed
         /\ TerminalEvents = << >>
         /\ \A e \in { "data", "close", "cancel" } : listeners[e] = 0 )

\* A close listener was registered before the failure: the listener set-ups
\* register close and abort listeners together, and abort ones are never removed.
C25_Witness ==
    /\ terminal = "error"
    /\ listeners["abort"] = 1
    /\ listeners["close"] = 0
    /\ calls >= 1
    /\ results = << Rejected(ProducerError) >>
    /\ events = << [ name |-> "data", arg |-> Processed(1), heard |-> TRUE ] >>

\* C26: when the awaited transform throws on chunk k, that chunk is neither
\* accumulated nor emitted as a data event, nothing more is pulled by that
\* read(), and error( err ) runs: without an error listener read() rejects with
\* err, with one the error event fires and read() resolves with the accumulated
\* chunks, in a first read() the first k - 1 transformed chunks.
C26_ThrowingTransformIsAPullError ==
    [][ (pc = "transform" /\ pc' = "idle")
        => ( /\ receivedChunks' = receivedChunks
             /\ DataEvents' = DataEvents
             /\ pulled' = pulled
             /\ queue' = queue
             /\ pull' = NoPull
             /\ closed'
             /\ IF listeners["error"] = 0
                THEN /\ results' = Append(results, Rejected(TransformError))
                     /\ events' = events
                ELSE /\ results' = Append(results, Resolved(receivedChunks))
                     /\ events' = Append(events, [ name |-> "error",
                                                   arg |-> TransformError,
                                                   heard |-> TRUE ])
             /\ reads = 1
                  => receivedChunks
                       = ProcessedAll(SubSeq(pulled, 1, Len(pulled) - 1)) ) ]_vars

C26_Witness ==
    /\ hasTransform
    /\ listeners["error"] = 1
    /\ stream = "readable"
    /\ pulled = << 1, 2 >>
    /\ results = << Resolved(<< Transform(1) >>) >>
    /\ Len(DataEvents) = 1
    /\ Len(ErrorEvents) = 1
    /\ ErrorEvents[1].arg = TransformError

\* The chunks whose transform threw: they were pulled and never emitted.
Dropped ==
    Len(SelectSeq(results, LAMBDA r : r.kind = "rejected" /\ r.err = TransformError))
    + Len(SelectSeq(events, LAMBDA e : e.name = "error" /\ e.arg = TransformError))

\* C27: no pull is outstanding while a chunk is being transformed or while no
\* read() runs; every pulled chunk has had its data event before the next pull
\* is issued, except the one being transformed and those whose transform threw;
\* the accumulated list holds exactly the chunks emitted so far, in that order.
C27_OneChunkAtATime ==
    /\ pc \in { "transform", "idle" } => pull = NoPull
    /\ pc = "pull" => pull # NoPull
    /\ Len(DataEvents) + Dropped + (IF pc = "transform" THEN 1 ELSE 0) = Len(pulled)
    /\ receivedChunks = [ i \in 1 .. Len(DataEvents) |-> DataEvents[i].arg ]

C27_Witness ==
    /\ pc = "transform"
    /\ pulled = << 1, 2 >>
    /\ Len(DataEvents) = 1
    /\ receivedChunks = << Transform(1) >>
    /\ queue = << 3 >>
    /\ pull = NoPull

\* C28: once cancel() has completed, no listener is left for the cancellation
\* event the reader emitted.
C28_NoListenerLeftForEmittedCancelEvent ==
    (cancelPc = "done" /\ CancelEvents # << >>)
    => listeners[CancelEvents[1].name] = 0

\* C29: the accumulated list is the image under the transform of the first
\* chunks pulled, in pull order, and never longer than the pulled chunks.
C29_AccumulatedIsImageOfPulledPrefix ==
    /\ Len(receivedChunks) <= Len(pulled)
    /\ receivedChunks = ProcessedAll(SubSeq(pulled, 1, Len(receivedChunks)))

\* C30: the promise is resolved in the transform step in which ExtractedData
\* reaches the target length, with a Buffer of exactly that length; once
\* resolved it stays resolved with the same Buffer, whatever chunk comes later.
C30_ResolvedOnceAtTarget ==
    /\ [](promise = "resolved"
            => (resolved /\ Len(promiseValue) = bytesToExtract))
    /\ [][ (Len(ExtractedData) < bytesToExtract /\ Len(ExtractedData') = bytesToExtract)
           => (promise' = "resolved" /\ promiseValue' = ExtractedData') ]_vars
    /\ [][ promise = "resolved"
           => (promise' = "resolved" /\ promiseValue' = promiseValue) ]_vars

C30_Witness ==
    /\ promise = "resolved"
    /\ bytesToExtract = 4
    /\ promiseValue = << 1, 2, 3, 4 >>
    /\ Len(chunks) >= 3
    /\ Len(chunks[1]) = 2
    /\ Delivered >= 10

\* C31: at every state of an extraction the extracted Buffer holds the first
\* min( target, bytes received ) bytes of the source, so it is never longer
\* than the target, and bytesRead (the bytes received) is below the target
\* exactly when the extracted Buffer is shorter than the target.
C31_ExtractedLengthIsMinOfTargetAndReceived ==
    /\ bytesRead = Delivered
    /\ Len(ExtractedData) = Min(bytesToExtract, Delivered)
    /\ ExtractedData = SubSeq(Source, 1, Min(bytesToExtract, Delivered))
    /\ bytesRead < bytesToExtract <=> Len(ExtractedData) < bytesToExtract

C31_Witness ==
    /\ bytesToExtract = 4
    /\ Len(chunks) = 2
    /\ Len(chunks[1]) = 3
    /\ Delivered = 8
    /\ Len(ExtractedData) = 4
    /\ bytesRead = 8

\* C32 as stated: once resolved is true, none of bytesRead, the extracted
\* Buffer and the resolved flag changes.
C32_StateImmutableOnceResolved ==
    [][ resolved => UNCHANGED << bytesRead, ExtractedData, resolved >> ]_vars

\* C32 amended: bytesRead, the extracted Buffer and the resolved flag change
\* only in a transform step (one that takes a chunk); once resolved is true the
\* extracted Buffer and the flag never change, while bytesRead goes on counting
\* every byte received.
C32_BufferAndFlagImmutableOnceResolved ==
    /\ [][ ~UNCHANGED << bytesRead, ExtractedData, resolved >>
           => chunks' # chunks ]_vars
    /\ [][ resolved
           => ( /\ resolved'
                /\ ExtractedData' = ExtractedData
                /\ bytesRead' = Delivered' ) ]_vars

C32_Witness ==
    /\ resolved
    /\ bytesToExtract = 3
    /\ Len(chunks) >= 3
    /\ Len(chunks[1]) = 3
    /\ bytesRead = 9
    /\ ExtractedData = << 1, 2, 3 >>

\* C33: when the source ends after delivering exactly the target, its last
\* chunk ending at the boundary, the promise is resolved with the whole source
\* and the continuation ends without an error and without any byte pushed.
C33_SourceEndingAtBoundary ==
    (input = "ended" /\ chunks # << >> /\ Delivered = bytesToExtract)
    => ( /\ promise = "resolved"
         /\ promiseValue = Source
         /\ pushes = << >>
         /\ transform = "ended"
         /\ transformError = "" )

C33_Witness ==
    /\ input = "ended"
    /\ Len(chunks) >= 2
    /\ Delivered = 7
    /\ bytesToExtract = 7
    /\ promise = "resolved"
    /\ promiseValue = << 1, 2, 3, 4, 5, 6, 7 >>
    /\ pushes = << >>
    /\ transform = "ended"

\* C39: nothing is pushed to the continuation while the extracted Buffer is
\* shorter than the target: when something has been pushed the target has been
\* reached and the promise resolved, in that step or an earlier one.
C39_NoPushBeforeTarget ==
    /\ [](Len(ExtractedData) < bytesToExtract => pushes = << >>)
    /\ [](pushes # << >> => (resolved /\ promise = "resolved"))
    /\ [][ pushes' # pushes => (resolved' /\ promise' = "resolved") ]_vars

C39_Witness ==
    /\ bytesToExtract = 6
    /\ Len(chunks) = 3
    /\ Delivered = 5
    /\ pushes = << >>
    /\ promise = "pending"

\* C36: on a source that eventually ends or errors, the promise returned by
\* extractBytesFromReadable is eventually resolved or rejected.
C36_ExtractionEventuallySettles == <>(promise # "pending")

\* C35: after cancel() or abort() was called on an open reader and is no longer
\* suspended at its await, the call has not rejected, the lock on the source is
\* released and no 'data', 'close' or 'cancel' listener is left, whatever the
\* source answered.
C35_CancelCleansUpWhateverTheSourceAnswers ==
    (terminal \in CancelKinds /\ ~CancelInFlight)
    => ( /\ cancelPc = "done"
         /\ cancelError = ""
         /\ ~locked
         /\ \A e \in { "data", "close", "cancel" } : listeners[e] = 0 )

\* C38: in every state where a read() has settled, resolved or rejected, the
\* reader is closed; and no step of any operation takes closed from true back
\* to false.
C38_SettledReadMeansClosedForGood ==
    /\ [](Len(results) >= 1 => closed)
    /\ [][ Len(results') > Len(results) => closed' ]_vars
    /\ [][ closed => closed' ]_vars

C38_Witness ==
    /\ closed
    /\ Len(results) = 2
    /\ results[1].kind = "resolved"
    /\ results[2] = Rejected(InvalidState)
    /\ calls >= 1

\* The chunk the iterated generator's outstanding pull holds, if any.
InFlight == IF pull.kind = "chunk" THEN << pull.chunk >> ELSE << >>

\* C34: iterating readChunks() directly yields the source's chunks, as they
\* are, in source order, each next() making exactly one pull (no chunk is taken
\* ahead of an advance), and the generator ends when the source has ended and
\* every chunk was yielded; no step of the iteration emits an event, adds to
\* the accumulated output, changes closed, the listeners or the lock.
C34_ReadChunksYieldsInOrderAndTouchesNothing ==
    /\ []( /\ yielded = [ i \in 1 .. Len(yielded) |-> i ]
           /\ nextCalls = Len(yielded) + (IF iterator = "suspended" THEN 0 ELSE 1)
           /\ iterator # "awaiting" => pull = NoPull
           /\ stream # "errored" => yielded \o InFlight \o queue = Written
           /\ iterator = "ended"
                => (producer = "ended" /\ stream = "closed" /\ yielded = Written)
           /\ events = << >>
           /\ receivedChunks = << >>
           /\ ~closed )
    /\ [][ iterator' # iterator
           => UNCHANGED << closed, receivedChunks, events, listeners, locked,
                           results, terminal >> ]_vars

C34_Witness ==
    /\ iterator = "ended"
    /\ yielded = << 1, 2, 3 >>
    /\ nextCalls = 4
    /\ hasTransform
    /\ listeners["data"] = 1
    /\ listeners["close"] = 1
    /\ events = << >>
    /\ receivedChunks = << >>
    /\ ~closed

\* C37: on a source that eventually ends, fails or is cancelled, with a
\* transform that terminates, every read() that was started eventually settles.
C37_ReadEventuallySettles ==
    \A r \in 1 .. MaxReads : (reads = r) ~> (Len(results) >= r)

C37_Witness ==
    /\ reads = 2
    /\ Len(results) = 2
    /\ pc = "idle"
    /\ cancelDuring = [ pc |-> "pull", read |-> 1, pull |-> "waiting" ]
    /\ cancelPc = "done"
    /\ results[1].kind = "resolved"

====
